---- MODULE Spec2Model ----
(***************************************************************************)
(* A model of the network-handler templates of WalletKitCore:              *)
(*   templates/blockchain/BR__Name__Address.c     (address codec)          *)
(*   templates/handlers/WKNetwork__SYMBOL__.c     (hash codec)             *)
(*   templates/handlers/WKWalletManager__SYMBOL__.c (wallet manager        *)
(*       handlers: transfer reconciliation, fee refinement, unsupported    *)
(*       operations)                                                       *)
(*                                                                         *)
(* Conventions.  A C string is a TLA+ string, the null pointer is NullStr. *)
(* An address is the sequence of its bytes, the null pointer is            *)
(* NullAddress.  A hash is the sequence of its bytes, the null pointer is  *)
(* NullHash.  assert() is compiled in or out by the build (NDEBUG): the    *)
(* variable assertsEnabled is fixed by Init and a failing assertion in an  *)
(* assert-enabled build stops the process (aborted).                       *)
(***************************************************************************)
EXTENDS Integers, Sequences, FiniteSets, TLC

VARIABLES
    assertsEnabled, \* the build compiles assert() in (NDEBUG not defined)
    aborted,        \* the process was stopped by a failed assertion
    transfers,      \* wallet->transfers, in array order
    processed,      \* number of bundles reconciled (or estimates refined) so far
    input,          \* the arguments drawn for the pure functions
    last,           \* the last call made and what it returned
    held,           \* references the reconciler has taken and not given, by kind
    pending         \* per thread, the reconciliation it is in the middle of

vars == <<assertsEnabled, aborted, transfers, processed, input, last, held,
          pending>>

----------------------------------------------------------------------------
(* Bounds *)

\* largest byte value an address payload is drawn from
MaxAddressByte == 2
\* number of bundles handed to the reconciler in one run of the model
MaxBundles == 4
\* largest `counter` attribute value of a fee estimate
MaxCounter == 3
\* number of fee estimates refined in one run of the model
MaxEstimates == 2
\* number of key/value attributes of a fee estimate
MaxAttributes == 1

----------------------------------------------------------------------------
(* Values *)

NullStr == "<NULL>"
NullAddress == <<>>
NullHash == <<>>

\* what a call produced: a returned value, or the process stopped in it
Return(v) == [abort |-> FALSE, value |-> v]
Abort == [abort |-> TRUE]

----------------------------------------------------------------------------
(* BR__Name__Address.c *)

__NAME___ADDRESS_BYTES == 1

feeAddressBytes == [i \in 1..__NAME___ADDRESS_BYTES |-> 0]
unknownAddressBytes == [i \in 1..__NAME___ADDRESS_BYTES |-> 0]

\* every address payload of the model
Addresses == [1..__NAME___ADDRESS_BYTES -> 0..MaxAddressByte]

\* the address texts the decoders are applied to
AddressStrings ==
    {NullStr, "", "unknown", "__fee__", "Unknown", "tz1abc", "KT1xyz", "@@"}

__name__AddressCreateFeeAddress == feeAddressBytes

__name__AddressCreateUnknownAddress == unknownAddressBytes

__name__AddressIsFeeAddress(address) == address = feeAddressBytes

__name__AddressIsUnknownAddress(address) == address = unknownAddressBytes

\* assert (0): stops the process when the build compiles assertions in;
\* `rest` is what the code after it produces when it compiles them out
AssertFalse(asserts, rest) == IF asserts THEN Abort ELSE rest

\* ASSERT_UNIMPLEMENTED, an assertion that always fails
ASSERT_UNIMPLEMENTED(asserts, rest) == AssertFalse(asserts, rest)

__name__AddressAsString(address, asserts) ==
    IF __name__AddressIsFeeAddress(address) THEN Return("__fee__")
    ELSE IF __name__AddressIsUnknownAddress(address) THEN Return("unknown")
    ELSE ASSERT_UNIMPLEMENTED(asserts, Return(NullStr))

\* the Base58Check decoding is compiled out (#if 0): what is left is the
\* assertion and `return NULL`
__name__AddressStringToAddress(inputString, asserts) ==
    ASSERT_UNIMPLEMENTED(asserts, Return(NullAddress))

\* the decoder without the fallback of non-strict mode for a null or empty
\* string: no address in either mode
AddressCreateFromStringNoEmptyFallback(addressString, strict, asserts) ==
    IF addressString = NullStr \/ Len(addressString) = 0
        THEN Return(NullAddress)
    ELSE IF strict
        THEN __name__AddressStringToAddress(addressString, asserts)
    ELSE IF addressString = "unknown"
        THEN Return(__name__AddressCreateUnknownAddress)
    ELSE IF addressString = "__fee__"
        THEN Return(__name__AddressCreateFeeAddress)
    ELSE __name__AddressStringToAddress(addressString, asserts)

__name__AddressCreateFromString(addressString, strict, asserts) ==
    IF addressString = NullStr \/ Len(addressString) = 0
        THEN (IF strict THEN Return(NullAddress)
                        ELSE Return(__name__AddressCreateUnknownAddress))
    ELSE IF strict
        THEN __name__AddressStringToAddress(addressString, asserts)
    ELSE IF addressString = "unknown"
        THEN Return(__name__AddressCreateUnknownAddress)
    ELSE IF addressString = "__fee__"
        THEN Return(__name__AddressCreateFeeAddress)
    ELSE __name__AddressStringToAddress(addressString, asserts)

__name__AddressEqual(a1, a2) == a1 = a2

----------------------------------------------------------------------------
(* WKNetwork__SYMBOL__.c *)

\* the hashes of the model and the text the remote indexer uses for each
HashTexts == ("oo1" :> <<1>>) @@ ("oo2" :> <<2>>)
Hashes == {HashTexts[t] : t \in DOMAIN HashTexts}

\* hash texts a bundle may carry: the valid ones and a malformed one
BundleHashStrings == (DOMAIN HashTexts) \cup {"0xZZ"}

\* wkHashCreateFromStringAs__SYMBOL__ is declared outside these files: a
\* text of the indexer decodes to its hash, anything else to no hash
wkHashCreateFromStringAs__SYMBOL__(string) ==
    IF string \in DOMAIN HashTexts THEN HashTexts[string] ELSE NullHash

wkNetworkCreateHashFromString__SYMBOL__(string) ==
    wkHashCreateFromStringAs__SYMBOL__(string)

\* the Base58Check encoding is compiled out (#if 0): `return NULL`
wkNetworkEncodeHash__SYMBOL__(hash) == NullStr

----------------------------------------------------------------------------
(* The codec as pure functions: Init draws the arguments, each action      *)
(* applies one function to them.                                           *)

CodecInputs ==
    [s : AddressStrings, strict : BOOLEAN, a : Addresses, h : Hashes]

NoCall == [op |-> "none"]

\* the kinds of reference the reconciler takes: wkWalletManagerGetWallet,
\* wkHashCreateFromStringAs__SYMBOL__, wkAddressCreateAs__SYMBOL__ (twice),
\* wkFeeBasisCreateAs__SYMBOL__, wkClientTransferBundleGetTransferState, and
\* the transfer from the lookup or from wkTransferCreateAs__SYMBOL__
ReferenceKinds ==
    {"wallet", "hash", "source", "target", "feeBasis", "state", "transfer"}

NoReferences == [kind \in ReferenceKinds |-> 0]

\* the threads that may call the reconciler for one wallet
Threads == {"t1", "t2"}

NotPending == [op |-> "none"]
NonePending == [thread \in Threads |-> NotPending]

InitCodec ==
    /\ assertsEnabled \in BOOLEAN
    /\ aborted = FALSE
    /\ transfers = <<>>
    /\ processed = 0
    /\ input \in CodecInputs
    /\ last = NoCall
    /\ held = NoReferences
    /\ pending = NonePending

\* what a call of a codec function leaves behind
Called(op, out) == [op |-> op, out |-> out]

CallAddressCreateFromString ==
    /\ last = NoCall
    /\ last' = Called("AddressCreateFromString",
            __name__AddressCreateFromString(input.s, input.strict, assertsEnabled))
    /\ aborted' = last'.out.abort
    /\ UNCHANGED <<held, pending, assertsEnabled, transfers, processed, input>>

CallAddressAsString ==
    /\ last = NoCall
    /\ last' = Called("AddressAsString",
            __name__AddressAsString(input.a, assertsEnabled))
    /\ aborted' = last'.out.abort
    /\ UNCHANGED <<held, pending, assertsEnabled, transfers, processed, input>>

\* encode(unknownAddress)
CallUnknownAddressAsString ==
    /\ last = NoCall
    /\ last' = Called("UnknownAddressAsString",
            __name__AddressAsString(__name__AddressCreateUnknownAddress, assertsEnabled))
    /\ aborted' = last'.out.abort
    /\ UNCHANGED <<held, pending, assertsEnabled, transfers, processed, input>>

\* encode(feeAddress)
CallFeeAddressAsString ==
    /\ last = NoCall
    /\ last' = Called("FeeAddressAsString",
            __name__AddressAsString(__name__AddressCreateFeeAddress, assertsEnabled))
    /\ aborted' = last'.out.abort
    /\ UNCHANGED <<held, pending, assertsEnabled, transfers, processed, input>>

\* decode(encode(a)): the decoder is applied to the text the encoder returned
AddressRoundTrip(a, strict, asserts) ==
    LET text == __name__AddressAsString(a, asserts)
    IN  IF text.abort THEN Abort
        ELSE __name__AddressCreateFromString(text.value, strict, asserts)

CallAddressRoundTrip ==
    /\ last = NoCall
    /\ last' = Called("AddressRoundTrip",
            AddressRoundTrip(input.a, input.strict, assertsEnabled))
    /\ aborted' = last'.out.abort
    /\ UNCHANGED <<held, pending, assertsEnabled, transfers, processed, input>>

\* decode(encode(h))
HashRoundTrip(h) ==
    wkNetworkCreateHashFromString__SYMBOL__(wkNetworkEncodeHash__SYMBOL__(h))

CallHashRoundTrip ==
    /\ last = NoCall
    /\ last' = Called("HashRoundTrip", Return(HashRoundTrip(input.h)))
    /\ UNCHANGED <<held, pending, assertsEnabled, aborted, transfers, processed, input>>

NextCodec ==
    \/ CallAddressCreateFromString
    \/ CallAddressAsString
    \/ CallUnknownAddressAsString
    \/ CallFeeAddressAsString
    \/ CallAddressRoundTrip
    \/ CallHashRoundTrip

SpecCodec == InitCodec /\ [][NextCodec]_vars

----------------------------------------------------------------------------
(* WKWalletManager__SYMBOL__.c: transfer reconciliation *)

UIDS == {"u1", "u2"}

\* the decimal texts of a bundle's amount and the value of each
AmountTexts == ("0" :> 0) @@ ("1" :> 1)
Amounts == {AmountTexts[t] : t \in DOMAIN AmountTexts}

\* from, to, amount and status of the bundles of the model: the example of
\* the specification, a value transfer, its burn companion, a fee transfer,
\* a bundle with a malformed amount, a failed transfer
Payloads ==
    { [from |-> "unknown", to |-> "unknown", amount |-> "0", status |-> "confirmed"],
      [from |-> "tz1abc",  to |-> "KT1xyz",  amount |-> "1", status |-> "confirmed"],
      [from |-> "tz1abc",  to |-> "unknown", amount |-> "1", status |-> "confirmed"],
      [from |-> "unknown", to |-> "__fee__", amount |-> "1", status |-> "failed"],
      [from |-> "",        to |-> "unknown", amount |-> "x", status |-> "confirmed"],
      [from |-> "unknown", to |-> "unknown", amount |-> "1", status |-> "failed"] }

\* WKClientTransferBundle
Bundles ==
    { [hash |-> h, uids |-> u, from |-> p.from, to |-> p.to,
       amount |-> p.amount, status |-> p.status] :
        h \in BundleHashStrings, u \in UIDS, p \in Payloads }

\* sscanf (bundle->amount, "%" PRIu64, &amount) into an uninitialized local:
\* a decimal text stores its value, a text with no leading digits stores
\* nothing and the local keeps an indeterminate value
sscanfAmount(text) ==
    IF text \in DOMAIN AmountTexts THEN {AmountTexts[text]} ELSE Amounts

\* wkClientTransferBundleGetTransferState is declared outside these files: the
\* transfer state the bundle's status stands for
wkClientTransferBundleGetTransferState(bundle) ==
    IF bundle.status = "confirmed" THEN "INCLUDED" ELSE "ERRORED"

\* wkTransferCreateAs__SYMBOL__ over __name__TransactionCreate, both declared
\* outside these files.  The transfer records its uids, state and the
\* transaction's source, target and amount; its hash is the hash of the chain
\* transaction it stands for (the hash wkTransferGetHash later reports).
wkTransferCreateAs__SYMBOL__(uids, state, source, target, amount, hash) ==
    [uids |-> uids, state |-> state, source |-> source, target |-> target,
     amount |-> amount, hash |-> hash]

\* wkWalletGetTransferByHashOrUIDS is declared outside these files: the index
\* of the first transfer of the wallet with that hash or those uids, 0 for
\* NULL.  A null hash matches nothing.
TransferMatches(transfer, hash, uids) ==
    \/ transfer.uids = uids
    \/ (hash # NullHash /\ transfer.hash = hash)

wkWalletGetTransferByHashOrUIDS(ts, hash, uids) ==
    IF \E i \in 1..Len(ts) : TransferMatches(ts[i], hash, uids)
        THEN CHOOSE i \in 1..Len(ts) :
                /\ TransferMatches(ts[i], hash, uids)
                /\ \A j \in 1..(i - 1) : ~TransferMatches(ts[j], hash, uids)
        ELSE 0

\* wkWalletAddTransfer is declared outside these files: appends to the array
wkWalletAddTransfer(ts, transfer) == Append(ts, transfer)

\* the handler without the test of the lookup's result: a transfer is created
\* and added for every bundle
RecoverBranchAlwaysAdds(ts, index, bundle, state, source, target, amount, hash) ==
    wkWalletAddTransfer(ts,
        wkTransferCreateAs__SYMBOL__(bundle.uids, state, source, target,
                                      amount, hash))

\* the handler with the arguments of __name__TransactionCreate exchanged: the
\* transfer created has the bundle's target as its source
RecoverBranchSwapsAddresses(ts, index, bundle, state, source, target, amount, hash) ==
    IF index # 0
        THEN [ts EXCEPT ![index].uids = bundle.uids, ![index].state = state]
        ELSE wkWalletAddTransfer(ts,
                wkTransferCreateAs__SYMBOL__(bundle.uids, state, target, source,
                                              amount, hash))

\* lines 248-266: what the handler does to the wallet once the addresses are
\* decoded: update the transfer found, or create one and add it.
\* `index` is the transfer the lookup returned, 0 when it returned NULL.
RecoverBranch(ts, index, bundle, state, source, target, amount, hash) ==
    IF index # 0
        THEN [ts EXCEPT ![index].uids = bundle.uids, ![index].state = state]
        ELSE wkWalletAddTransfer(ts,
                wkTransferCreateAs__SYMBOL__(bundle.uids, state, source, target,
                                              amount, hash))

\* number of times `kind` occurs in a sequence of references
Count(references, kind) ==
    Cardinality({n \in 1..Len(references) : references[n] = kind})

\* the references the handler takes before the test of line 248, in order:
\* the wallet (line 217), the two addresses (lines 233-234), the hash (line
\* 240), the transfer the lookup returned if it returned one (line 241), the
\* fee basis (line 244), the state (line 246)
ReferencesAcquiredBeforeBranch(index) ==
    <<"wallet", "target", "source", "hash">>
        \o (IF index # 0 THEN <<"transfer">> ELSE <<>>)
        \o <<"feeBasis", "state">>

\* and in the branch: the transfer it creates when none was found (line 258)
ReferencesAcquiredInBranch(index) ==
    IF index = 0 THEN <<"transfer">> ELSE <<>>

ReferencesAcquired(index) ==
    ReferencesAcquiredBeforeBranch(index) \o ReferencesAcquiredInBranch(index)

\* the handler that forgets wkHashGive
ReferencesReleasedWithoutHash ==
    <<"transfer", "source", "target", "feeBasis", "state", "wallet">>

\* the references the handler gives before it returns, lines 270-279
ReferencesReleased ==
    <<"transfer", "hash", "source", "target", "feeBasis", "state", "wallet">>

\* the references held once those of `acquired` are taken and those of
\* `released` are given
HeldAfter(before, acquired, released) ==
    [kind \in ReferenceKinds |->
        before[kind] + Count(acquired, kind) - Count(released, kind)]

\* the call before this one was a reconciliation that ran to its return, of
\* a bundle with the same hash and the same uids
SameIdentityAsLast(bundle) ==
    /\ last.op = "RecoverTransferFromTransferBundle"
    /\ last.branch # "aborted"
    /\ last.bundle.hash = bundle.hash
    /\ last.bundle.uids = bundle.uids

\* a reconciliation that ran to its return: the bundle, the branch taken, the
\* place in the wallet of the transfer it updated or added, the decoded
\* fields, whether it repeats the identity of the call before, and whether
\* the call created a fee basis: lines 243-244 run before the branch, on
\* both paths, and the state set on the transfer is derived from it
Reconciled(bundle, index, sizeBefore, source, target, amount) ==
    [op |-> "RecoverTransferFromTransferBundle", bundle |-> bundle,
     branch |-> IF index # 0 THEN "found" ELSE "created",
     index |-> IF index # 0 THEN index ELSE sizeBefore + 1,
     source |-> source, target |-> target, amount |-> amount,
     repeat |-> SameIdentityAsLast(bundle),
     feeBasisCreated |-> TRUE,
     acquired |-> ReferencesAcquired(index),
     released |-> ReferencesReleased]

\* a reconciliation stopped by the assertion of the address decoder
ReconcileAborted(bundle) ==
    [op |-> "RecoverTransferFromTransferBundle", bundle |-> bundle,
     branch |-> "aborted"]

wkWalletManagerRecoverTransferFromTransferBundle__SYMBOL__(bundle) ==
    /\ ~aborted
    /\ processed < MaxBundles
    /\ processed' = processed + 1
    /\ \E amount \in sscanfAmount(bundle.amount) :
        LET target == __name__AddressCreateFromString(bundle.to, FALSE, assertsEnabled)
            source == __name__AddressCreateFromString(bundle.from, FALSE, assertsEnabled)
            hash   == wkHashCreateFromStringAs__SYMBOL__(bundle.hash)
            index  == wkWalletGetTransferByHashOrUIDS(transfers, hash, bundle.uids)
            state  == wkClientTransferBundleGetTransferState(bundle)
        IN  IF target.abort \/ source.abort
                THEN /\ aborted' = TRUE
                     /\ last' = ReconcileAborted(bundle)
                     /\ held' = HeldAfter(held, <<"wallet">>, <<>>)
                     /\ UNCHANGED transfers
                ELSE /\ transfers' = RecoverBranch(transfers, index, bundle, state,
                                                   source.value, target.value,
                                                   amount, hash)
                     /\ last' = Reconciled(bundle, index, Len(transfers),
                                           source.value, target.value, amount)
                     /\ held' = HeldAfter(held, ReferencesAcquired(index),
                                           ReferencesReleased)
                     /\ UNCHANGED aborted
    /\ UNCHANGED <<pending, assertsEnabled, input>>

RecoverTransfer ==
    \E bundle \in Bundles :
        wkWalletManagerRecoverTransferFromTransferBundle__SYMBOL__(bundle)

----------------------------------------------------------------------------
(* WKWalletManager__SYMBOL__.c: the operations the network does not support *)

crytpWalletManagerCreateP2PManager__SYMBOL__ == Return("NULL")

wkWalletManagerSignTransactionWithKey__SYMBOL__(asserts) ==
    AssertFalse(asserts, Return("WK_FALSE"))

\* returns void
wkWalletManagerRecoverTransfersFromTransactionBundle__SYMBOL__(asserts) ==
    AssertFalse(asserts, Return("void"))

wkWalletManagerWalletSweeperValidateSupported__SYMBOL__ ==
    Return("WK_WALLET_SWEEPER_UNSUPPORTED_CURRENCY")

wkWalletManagerCreateWalletSweeper__SYMBOL__ == Return("NULL")

CreateP2PManager ==
    /\ ~aborted
    /\ last' = Called("CreateP2PManager", crytpWalletManagerCreateP2PManager__SYMBOL__)
    /\ UNCHANGED <<held, pending, assertsEnabled, aborted, transfers, processed, input>>

SignTransactionWithKey ==
    /\ ~aborted
    /\ last' = Called("SignTransactionWithKey",
            wkWalletManagerSignTransactionWithKey__SYMBOL__(assertsEnabled))
    /\ aborted' = last'.out.abort
    /\ UNCHANGED <<held, pending, assertsEnabled, transfers, processed, input>>

RecoverTransfersFromTransactionBundle ==
    /\ ~aborted
    /\ last' = Called("RecoverTransfersFromTransactionBundle",
            wkWalletManagerRecoverTransfersFromTransactionBundle__SYMBOL__(assertsEnabled))
    /\ aborted' = last'.out.abort
    /\ UNCHANGED <<held, pending, assertsEnabled, transfers, processed, input>>

WalletSweeperValidateSupported ==
    /\ ~aborted
    /\ last' = Called("WalletSweeperValidateSupported",
            wkWalletManagerWalletSweeperValidateSupported__SYMBOL__)
    /\ UNCHANGED <<held, pending, assertsEnabled, aborted, transfers, processed, input>>

CreateWalletSweeper ==
    /\ ~aborted
    /\ last' = Called("CreateWalletSweeper", wkWalletManagerCreateWalletSweeper__SYMBOL__)
    /\ UNCHANGED <<held, pending, assertsEnabled, aborted, transfers, processed, input>>

UnsupportedOperations ==
    {"CreateP2PManager", "SignTransactionWithKey",
     "RecoverTransfersFromTransactionBundle", "WalletSweeperValidateSupported",
     "CreateWalletSweeper"}

----------------------------------------------------------------------------
(* The wallet manager: the wallet is created empty                         *)
(* (wkWalletManagerCreateWallet__SYMBOL__ loads no transfers) and the      *)
(* manager's event sequence makes one handler call at a time.              *)

Init ==
    /\ assertsEnabled \in BOOLEAN
    /\ aborted = FALSE
    /\ transfers = <<>>
    /\ processed = 0
    /\ input = [none |-> TRUE]
    /\ last = NoCall
    /\ held = NoReferences
    /\ pending = NonePending

Next ==
    \/ RecoverTransfer
    \/ CreateP2PManager
    \/ SignTransactionWithKey
    \/ RecoverTransfersFromTransactionBundle
    \/ WalletSweeperValidateSupported
    \/ CreateWalletSweeper

Spec == Init /\ [][Next]_vars

----------------------------------------------------------------------------
(* The reconciler called from two threads for one wallet.  The handler takes *)
(* no lock of its own: the lookup of line 241 and the branch of lines        *)
(* 248-266 are two steps, and another call may run between them unless the   *)
(* caller serializes the calls.  Init draws which of the two the caller does. *)

\* number of bundles handed to the reconciler by the two threads together
MaxInterleaved == 3

\* the bundles of the batch: the example of the specification and a value
\* transfer's burn companion, under every hash text and uids
InterleavedBundles ==
    { bundle \in Bundles :
        /\ bundle.to = "unknown"
        /\ bundle.status = "confirmed"
        /\ bundle.amount \in DOMAIN AmountTexts
        /\ bundle.from \in {"unknown", "tz1abc"} }

InitConcurrent ==
    /\ assertsEnabled \in BOOLEAN
    /\ aborted = FALSE
    /\ transfers = <<>>
    /\ processed = 0
    /\ input \in [serialized : BOOLEAN]
    /\ last = NoCall
    /\ held = NoReferences
    /\ pending = NonePending

\* the caller's lock or queue: a call starts only when no other is running
CallerAdmits(thread) ==
    input.serialized => \A other \in Threads : pending[other] = NotPending

\* lines 213-246: decode the bundle, look the transfer up, derive the state
RecoverTransferLookup(thread, bundle) ==
    /\ ~aborted
    /\ processed < MaxInterleaved
    /\ pending[thread] = NotPending
    /\ CallerAdmits(thread)
    /\ processed' = processed + 1
    /\ \E amount \in sscanfAmount(bundle.amount) :
        LET target == __name__AddressCreateFromString(bundle.to, FALSE, assertsEnabled)
            source == __name__AddressCreateFromString(bundle.from, FALSE, assertsEnabled)
            hash   == wkHashCreateFromStringAs__SYMBOL__(bundle.hash)
            index  == wkWalletGetTransferByHashOrUIDS(transfers, hash, bundle.uids)
            state  == wkClientTransferBundleGetTransferState(bundle)
        IN  IF target.abort \/ source.abort
                THEN /\ aborted' = TRUE
                     /\ last' = ReconcileAborted(bundle)
                     /\ held' = HeldAfter(held, <<"wallet">>, <<>>)
                     /\ UNCHANGED pending
                ELSE /\ pending' = [pending EXCEPT ![thread] =
                            [op |-> "lookup", bundle |-> bundle, index |-> index,
                             state |-> state, source |-> source.value,
                             target |-> target.value, amount |-> amount,
                             hash |-> hash]]
                     /\ held' = HeldAfter(held, ReferencesAcquiredBeforeBranch(index),
                                          <<>>)
                     /\ UNCHANGED <<aborted, last>>
    /\ UNCHANGED <<assertsEnabled, transfers, input>>

\* lines 248-279: update the transfer found or create and add one, then give
\* the references
RecoverTransferBranch(thread) ==
    /\ ~aborted
    /\ pending[thread] # NotPending
    /\ LET call == pending[thread]
       IN  /\ transfers' = RecoverBranch(transfers, call.index, call.bundle,
                                         call.state, call.source, call.target,
                                         call.amount, call.hash)
           /\ last' = Reconciled(call.bundle, call.index, Len(transfers),
                                 call.source, call.target, call.amount)
           /\ held' = HeldAfter(held, ReferencesAcquiredInBranch(call.index),
                                ReferencesReleased)
    /\ pending' = [pending EXCEPT ![thread] = NotPending]
    /\ UNCHANGED <<assertsEnabled, aborted, processed, input>>

RecoverLookup ==
    \E thread \in Threads, bundle \in InterleavedBundles :
        RecoverTransferLookup(thread, bundle)

RecoverBranchStep == \E thread \in Threads : RecoverTransferBranch(thread)

NextConcurrent ==
    \/ RecoverLookup
    \/ RecoverBranchStep

SpecConcurrent == InitConcurrent /\ [][NextConcurrent]_vars

----------------------------------------------------------------------------
(* WKWalletManager__SYMBOL__.c: fee refinement *)

AttributeKeys == {"consumed_gas", "storage_size", "counter"}

DecimalTexts == <<"0", "1", "2", "3", "4", "5", "6", "7", "8", "9">>

\* the attribute values of the model: the decimal text of a counter, and a
\* text that is no number
AttributeValues == {DecimalTexts[n + 1] : n \in 0..MaxCounter} \cup {"abc"}

\* a key may be written in another case by the remote service
LowerCase == ("Counter" :> "counter")
tolower(string) == IF string \in DOMAIN LowerCase THEN LowerCase[string] ELSE string

\* the attribute lists of a fee estimate: attributeKeys[i], attributeVals[i]
AttributePairs ==
    [key : AttributeKeys \cup DOMAIN LowerCase, val : AttributeValues]
AttributeLists ==
    UNION {[1..n -> AttributePairs] : n \in 0..MaxAttributes}

\* strcasecmp (a, b) == 0
strcasecmpEqual(a, b) == tolower(a) = tolower(b)

cwmLookupAttributeValueForKey(key, attributes) ==
    IF \E index \in 1..Len(attributes) : strcasecmpEqual(key, attributes[index].key)
        THEN attributes[CHOOSE index \in 1..Len(attributes) :
                /\ strcasecmpEqual(key, attributes[index].key)
                /\ \A j \in 1..(index - 1) :
                      ~strcasecmpEqual(key, attributes[j].key)].val
        ELSE NullStr

\* strtoull (string, NULL, 0): the number a decimal text starts with, 0 when
\* it starts with none
strtoull(string) ==
    IF \E n \in 0..9 : DecimalTexts[n + 1] = string
        THEN CHOOSE n \in 0..9 : DecimalTexts[n + 1] = string
        ELSE 0

\* `error` is the caller's flag: set on a NULL string, otherwise left as it is
cwmParseUInt64(string, error) ==
    IF string = NullStr THEN [value |-> 0, error |-> TRUE]
    ELSE [value |-> strtoull(string), error |-> error]

\* __name__FeeBasisCreate () is declared outside these files: it takes no
\* argument, so the fee basis it builds is the same at every call; `counter`
\* is the counter that fee basis carries
__name__FeeBasisCreate(counter) == [type |-> "default", counter |-> counter]

\* lines 290-311 are compiled out (#if 0): the attributes are not read and the
\* fee basis returned is the default one
wkWalletManagerRecoverFeeBasisFromFeeEstimate__SYMBOL__(attributes, defaultCounter) ==
    __name__FeeBasisCreate(defaultCounter)

\* the `counter` attribute of an estimate, as the remote service reported it
ReportedCounter(attributes) ==
    cwmParseUInt64(cwmLookupAttributeValueForKey("counter", attributes), FALSE)

InitFee ==
    /\ assertsEnabled \in BOOLEAN
    /\ aborted = FALSE
    /\ transfers = <<>>
    /\ processed = 0
    /\ input \in [feeBasisCounter : 0..MaxCounter]
    /\ last = NoCall
    /\ held = NoReferences
    /\ pending = NonePending

\* the counters the account has been seen with before this call: those the
\* remote service reported and those the refinements returned
ObservedCounters ==
    IF last = NoCall THEN {}
    ELSE last.observed \cup {last.out.counter}
            \cup (IF ReportedCounter(last.attributes).error THEN {}
                  ELSE {ReportedCounter(last.attributes).value})

RecoverFeeBasisFromFeeEstimate ==
    /\ processed < MaxEstimates
    /\ processed' = processed + 1
    /\ \E attributes \in AttributeLists :
          last' = [op |-> "RecoverFeeBasisFromFeeEstimate",
                   attributes |-> attributes,
                   observed |-> ObservedCounters,
                   out |-> wkWalletManagerRecoverFeeBasisFromFeeEstimate__SYMBOL__(
                               attributes, input.feeBasisCounter)]
    /\ UNCHANGED <<held, pending, assertsEnabled, aborted, transfers, input>>

NextFee == RecoverFeeBasisFromFeeEstimate

SpecFee == InitFee /\ [][NextFee]_vars

----------------------------------------------------------------------------
(* cwmLookupAttributeValueForKey and cwmParseUInt64 as pure functions: Init  *)
(* draws the key, the attribute list and the caller's error flag.  The flag *)
(* is drawn too: the caller at lines 291-295 declares it without a value    *)
(* and hands the same flag to each parse.                                   *)

InitAttribute ==
    /\ assertsEnabled \in BOOLEAN
    /\ aborted = FALSE
    /\ transfers = <<>>
    /\ processed = 0
    /\ input \in [key : AttributeKeys, attributes : AttributeLists, error : BOOLEAN]
    /\ last = NoCall
    /\ held = NoReferences
    /\ pending = NonePending

\* cwmParseUInt64 (cwmLookupAttributeValueForKey (key, ...), &parseError)
LookupAndParse(key, attributes, error) ==
    cwmParseUInt64(cwmLookupAttributeValueForKey(key, attributes), error)

CallLookupAndParse ==
    /\ last = NoCall
    /\ last' = Called("LookupAndParse",
            LookupAndParse(input.key, input.attributes, input.error))
    /\ UNCHANGED <<held, pending, assertsEnabled, aborted, transfers, processed, input>>

NextAttribute == CallLookupAndParse

SpecAttribute == InitAttribute /\ [][NextAttribute]_vars

----------------------------------------------------------------------------
(* Properties of the reconciliation *)

RT == "RecoverTransferFromTransferBundle"

\* this step is a reconciliation that ran to its return
ReconcileStep ==
    /\ processed' = processed + 1
    /\ last'.op = RT
    /\ last'.branch # "aborted"

\* the places in wallet `ts` of the transfers matching a bundle's identity
MatchingTransfers(ts, bundle) ==
    { i \in 1..Len(ts) :
        TransferMatches(ts[i], wkHashCreateFromStringAs__SYMBOL__(bundle.hash),
                        bundle.uids) }

C2_BurnPair ==
    [][ ( /\ ReconcileStep
          /\ last'.target = __name__AddressCreateUnknownAddress
          /\ \E i \in 1..Len(transfers) :
                /\ transfers[i].hash # NullHash
                /\ transfers[i].hash =
                       wkHashCreateFromStringAs__SYMBOL__(last'.bundle.hash)
                /\ ~__name__AddressIsUnknownAddress(transfers[i].target)
          /\ \A i \in 1..Len(transfers) : transfers[i].uids # last'.bundle.uids )
          => /\ Len(transfers') = Len(transfers) + 1
             /\ SubSeq(transfers', 1, Len(transfers)) = transfers
             /\ transfers'[Len(transfers')].hash =
                    wkHashCreateFromStringAs__SYMBOL__(last'.bundle.hash)
      ]_vars

\* C3: a bundle whose amount text or hash text is malformed is dropped: the
\* wallet is left exactly as it was.
MalformedBundle(bundle) ==
    \/ bundle.amount \notin DOMAIN AmountTexts
    \/ bundle.hash \notin DOMAIN HashTexts

C3_MalformedBundleDropped ==
    [][ (processed' = processed + 1 /\ last'.op = RT /\ MalformedBundle(last'.bundle))
          => transfers' = transfers ]_vars

\* C4: an address text of a bundle that is neither empty nor a reserved
\* token and fails validation is replaced by the unknown sentinel: the
\* reconciliation runs to its return, the field is the unknown address (not
\* NULL) and a transfer stands for the bundle.
InvalidAddressText(text) ==
    /\ text \notin {NullStr, "", "unknown", "__fee__"}
    /\ \A asserts \in BOOLEAN :
          __name__AddressStringToAddress(text, asserts) \in {Abort, Return(NullAddress)}

C4_AddressFallback ==
    (last.op = RT /\ (InvalidAddressText(last.bundle.to) \/ InvalidAddressText(last.bundle.from)))
      => /\ last.branch # "aborted"
         /\ InvalidAddressText(last.bundle.to)
              => __name__AddressIsUnknownAddress(last.target)
         /\ InvalidAddressText(last.bundle.from)
              => __name__AddressIsUnknownAddress(last.source)

\* C9: a handler of an operation the network does not support returns to its
\* caller with a status or absence value; the process is never stopped by
\* a failing assertion.
C9_UnsupportedNeverFatal ==
    (last.op \in UnsupportedOperations)
      => /\ ~last.out.abort
         /\ ~aborted

----------------------------------------------------------------------------
(* Properties of the codecs *)

\* C5: the fee address encodes as "__fee__" and the unknown address as
\* "unknown", and each token decodes, in non-strict mode, to the sentinel it
\* names: "__fee__" to an address that is the fee address and not the
\* unknown one, "unknown" to an address that is the unknown address and not
\* the fee one.
C5_SentinelStability ==
    /\ last.op = "FeeAddressAsString" => last.out = Return("__fee__")
    /\ last.op = "UnknownAddressAsString" => last.out = Return("unknown")
    /\ (last.op = "AddressCreateFromString" /\ ~input.strict /\ input.s = "__fee__")
         => /\ ~last.out.abort
            /\ __name__AddressIsFeeAddress(last.out.value)
            /\ ~__name__AddressIsUnknownAddress(last.out.value)
    /\ (last.op = "AddressCreateFromString" /\ ~input.strict /\ input.s = "unknown")
         => /\ ~last.out.abort
            /\ __name__AddressIsUnknownAddress(last.out.value)
            /\ ~__name__AddressIsFeeAddress(last.out.value)

\* C6: decoding a null or empty address string in non-strict mode returns
\* the unknown sentinel address: the call returns, the address is not NULL
\* and __name__AddressIsUnknownAddress holds of it.
C6_NonStrictEmpty ==
    (last.op = "AddressCreateFromString" /\ ~input.strict /\ input.s \in {NullStr, ""})
      => /\ ~last.out.abort
         /\ ~aborted
         /\ last.out.value # NullAddress
         /\ Len(last.out.value) = __NAME___ADDRESS_BYTES
         /\ __name__AddressIsUnknownAddress(last.out.value)

\* C6 witness: the empty string was decoded in non-strict mode, in a build
\* with assertions, and the unknown address came back
C6_Witness ==
    /\ last.op = "AddressCreateFromString"
    /\ ~input.strict
    /\ input.s = ""
    /\ assertsEnabled
    /\ last.out = Return(unknownAddressBytes)

\* C7: decoding in strict mode returns NULL for every string that is null,
\* empty or no valid address, the reserved tokens included.
C7_StrictInvalid ==
    (last.op = "AddressCreateFromString" /\ input.strict)
      => last.out = Return(NullAddress)

\* C8: decoding the text an address encodes to gives the address back, and
\* decoding the text a hash encodes to gives the hash back.
C8_RoundTrip ==
    /\ last.op = "AddressRoundTrip" => last.out = Return(input.a)
    /\ last.op = "HashRoundTrip" => last.out = Return(input.h)

----------------------------------------------------------------------------
(* Properties of the fee refinement *)

\* C10: the fee basis a refinement returns carries the estimate's `counter`
\* attribute plus one, so that when the counters reported do not decrease,
\* the counter returned is greater than every counter seen before.
C10_CounterMonotonicity ==
    ( /\ last.op = "RecoverFeeBasisFromFeeEstimate"
      /\ ~ReportedCounter(last.attributes).error
      /\ \A c \in last.observed : c <= ReportedCounter(last.attributes).value )
      => /\ last.out.counter = ReportedCounter(last.attributes).value + 1
         /\ \A c \in last.observed : last.out.counter > c

\* C11: looking a required attribute up and parsing it signals an error
\* exactly when the key is absent from the list or its value is no number:
\* the error flag is set in those cases and is not set when the key is
\* there with a decimal value.
KeyPresent(key, attributes) ==
    \E index \in 1..Len(attributes) : strcasecmpEqual(key, attributes[index].key)

NumericText(string) == \E n \in 1..Len(DecimalTexts) : DecimalTexts[n] = string

C11_MissingAttributeDetection ==
    (last.op = "LookupAndParse")
      => (last.out.error
            <=> ~( /\ KeyPresent(input.key, input.attributes)
                   /\ NumericText(cwmLookupAttributeValueForKey(input.key,
                                                                input.attributes)) ))

\* the found branch left the wallet as it was but for the uids and the state
\* of the transfer at `index`
FoundBranchFrame(index) ==
    /\ Len(transfers') = Len(transfers)
    /\ \A j \in 1..Len(transfers) : j # index => transfers'[j] = transfers[j]
    /\ transfers'[index] = [transfers[index] EXCEPT
                                !.uids = transfers'[index].uids,
                                !.state = transfers'[index].state]

FoundStep == ReconcileStep /\ MatchingTransfers(transfers, last'.bundle) # {}

\* the frame alone, without the clause on the fee basis
FoundBranchFrameOnly == [][ FoundStep => FoundBranchFrame(last'.index) ]_vars

\* C12: when the lookup by hash or uids returns a tracked transfer, the
\* reconciliation changes only that transfer's uids and state: the wallet
\* keeps its size, every other transfer and the found transfer's source,
\* target and amount are as before, and the call creates no fee basis.
C12_FoundBranchFrame ==
    [][ FoundStep
          => /\ FoundBranchFrame(last'.index)
             /\ ~last'.feeBasisCreated
      ]_vars

NotFoundStep == ReconcileStep /\ MatchingTransfers(transfers, last'.bundle) = {}

\* the example of the specification: from "unknown", to "unknown", amount "0"
UnknownZeroBundle(bundle) ==
    /\ bundle.from = "unknown"
    /\ bundle.to = "unknown"
    /\ bundle.amount = "0"

\* C13: when no tracked transfer matches the bundle's hash or uids, the
\* reconciliation adds exactly one transfer to the wallet, after the ones
\* already there: it carries the bundle's uids, the addresses decoded from
\* `from` and `to` and the amount decoded from `amount`; for from "unknown",
\* to "unknown", amount "0" its source and target are the unknown sentinel
\* and its amount is zero.
C13_NotFoundBranchAdds ==
    [][ NotFoundStep
          => LET bundle == last'.bundle
                 new    == transfers'[Len(transfers')]
             IN  /\ Len(transfers') = Len(transfers) + 1
                 /\ SubSeq(transfers', 1, Len(transfers)) = transfers
                 /\ new.uids = bundle.uids
                 /\ new.source = __name__AddressCreateFromString(bundle.from, FALSE,
                                                                 assertsEnabled).value
                 /\ new.target = __name__AddressCreateFromString(bundle.to, FALSE,
                                                                 assertsEnabled).value
                 /\ new.amount \in sscanfAmount(bundle.amount)
                 /\ (UnknownZeroBundle(bundle)
                       => /\ __name__AddressIsUnknownAddress(new.source)
                          /\ __name__AddressIsUnknownAddress(new.target)
                          /\ new.amount = 0)
      ]_vars

\* C13 witness: the example bundle was reconciled against a wallet that held
\* a transfer already, none matching, and the transfer added for it is the
\* last of the wallet, from and to the unknown sentinel, of amount zero
C13_Witness ==
    /\ last.op = RT
    /\ last.branch = "created"
    /\ UnknownZeroBundle(last.bundle)
    /\ Len(transfers) >= 2
    /\ last.index = Len(transfers)
    /\ transfers[last.index].uids = last.bundle.uids
    /\ __name__AddressIsUnknownAddress(transfers[last.index].source)
    /\ __name__AddressIsUnknownAddress(transfers[last.index].target)
    /\ transfers[last.index].amount = 0

\* C14: every reference the handler takes (wallet, hash, source address,
\* target address, fee basis, transfer state, its reference to the transfer)
\* is given exactly once before the handler returns, on the found path and
\* on the other: each reconciliation that returned took one reference of
\* each kind and gave one, and once any sequence of bundles has been
\* reconciled the handler holds no reference.
C14_ReferenceBalance ==
    /\ ~aborted => held = NoReferences
    /\ (last.op = RT /\ last.branch # "aborted")
          => \A kind \in ReferenceKinds :
                /\ Count(last.acquired, kind) = 1
                /\ Count(last.released, kind) = 1

\* C14 witness: a found reconciliation and, before it, one that created a
\* transfer have returned, and no reference is held
C14_Witness ==
    /\ last.op = RT
    /\ last.branch = "found"
    /\ processed >= 2
    /\ Len(transfers) >= 1
    /\ Len(last.released) = Cardinality(ReferenceKinds)
    /\ held = NoReferences

\* two tracked transfers of wallet `ts` have the same hash and the same uids
DuplicateIdentity(ts) ==
    \E i, j \in 1..Len(ts) :
        /\ i < j
        /\ ts[i].hash = ts[j].hash
        /\ ts[i].uids = ts[j].uids

\* C15: when the caller serializes the reconciliations of a wallet, no
\* reachable state holds two tracked transfers with the same hash and uids.
\* (When it lets two reconciliations of one bundle run between each other's
\* lookup and insert, such a state is reachable: C15_InterleavedDuplicate.)
C15_SerializedNoDuplicate ==
    input.serialized => ~DuplicateIdentity(transfers)

\* C15 witness: the caller does not serialize, and the transfer the last
\* reconciliation created for its bundle has the hash and uids of a transfer
\* tracked before it
C15_InterleavedDuplicate ==
    /\ ~input.serialized
    /\ last.op = RT
    /\ last.branch = "created"
    /\ last.index = Len(transfers)
    /\ \E i \in 1..(Len(transfers) - 1) :
          /\ transfers[i].uids = last.bundle.uids
          /\ transfers[i].hash = wkHashCreateFromStringAs__SYMBOL__(last.bundle.hash)
          /\ transfers[i].hash = transfers[last.index].hash
          /\ transfers[i].uids = transfers[last.index].uids

====
